---- MODULE Spec2Model ----
(***************************************************************************)
(* getrandom for Linux / Android (src/src/linux_android.rs).               *)
(*                                                                         *)
(* A process with several threads, each calling getrandom(dest) some       *)
(* number of times.  Shared state: the atomic RNG_INIT, and the Once       *)
(* CHECKER with the atomic AVAILABLE of is_getrandom_available.  Thread    *)
(* local state: RNG_SOURCE.  The kernel is the environment: every syscall, *)
(* open and read picks its outcome nondeterministically.  Every access to  *)
(* shared state and every kernel call is one atomic step; thread-local     *)
(* computation is folded into the step that precedes it.                   *)
(***************************************************************************)
EXTENDS Integers, FiniteSets, Sequences, TLC

\* ------------------------------------------------------------------ bounds
NThreads == 2      \* threads of the process
MaxCalls == 2      \* getrandom calls issued in the process
MaxLen   == 2      \* largest dest.len()

\* ------------------------------------------------------- program constants
ENOSYS == 38       \* libc::ENOSYS, function not implemented
EINTR  == 4        \* io::ErrorKind::Interrupted
EFAULT == 14       \* any other error of a kernel call

Threads == 1..NThreads
Lens    == 0..MaxLen

VARIABLES
    pc,          \* pc[t]: where thread t stands in getrandom
    calls,       \* getrandom calls issued so far, by all threads
    len,         \* len[t]: dest.len() of t's current call (0 outside a call)
    remaining,   \* remaining[t]: bytes read_exact has still to fill
    result,      \* result[t]: what t's last getrandom call returned
    RNG_SOURCE,  \* RNG_SOURCE[t]: thread-local Option<RngSource>
    tmpFile,     \* tmpFile[t]: the temporary File of /dev/random (0: none)
    RNG_INIT,    \* static AtomicBool
    CHECKER,     \* static Once
    AVAILABLE,   \* static AtomicBool
    lastCall,    \* the most recent kernel call and its outcome
    probes,      \* history: outcomes of the zero-length probe syscalls, in order
    answers,     \* history: values is_getrandom_available has returned
    poolRead,    \* history: a one-byte read of /dev/random has succeeded
    stores       \* history: stores[t] = stores of true to RNG_INIT by t

vars == <<pc, calls, len, remaining, result, RNG_SOURCE, tmpFile, RNG_INIT,
          CHECKER, AVAILABLE, lastCall, probes, answers, poolRead, stores>>

\* ----------------------------------------------------------------- values
None        == [kind |-> "None", fd |-> 0]
GetRandom   == [kind |-> "GetRandom", fd |-> 0]
Device(fd)  == [kind |-> "Device", fd |-> fd]

NoCall == [op |-> "none", ret |-> 0, errno |-> 0]
KCall(op, ret, errno) == [op |-> op, ret |-> ret, errno |-> errno]

\* File descriptors in use, and the descriptor the next open returns.
UsedFds ==
    {RNG_SOURCE[t].fd : t \in {u \in Threads : RNG_SOURCE[u].kind = "Device"}}
      \cup {tmpFile[t] : t \in {u \in Threads : tmpFile[u] # 0}}
FreshFd == CHOOSE n \in 1..(Cardinality(UsedFds) + 1) :
               n \notin UsedFds /\ \A m \in 1..(n - 1) : m \in UsedFds

\* Outcomes the kernel can give.  The zero-length probe fails with ENOSYS on
\* a kernel without the syscall; a fill is issued only on a kernel that has
\* it, and fails with another error.
ProbeOutcomes ==
    {[ret |-> 0, errno |-> 0]}
      \cup {[ret |-> -1, errno |-> e] : e \in {ENOSYS, EFAULT}}
SysOutcomes(n) ==
    {[ret |-> r, errno |-> 0] : r \in 0..n} \cup {[ret |-> -1, errno |-> EFAULT]}
ReadOutcomes(n) ==
    {[ret |-> r, errno |-> 0] : r \in 0..n}
      \cup {[ret |-> -1, errno |-> e] : e \in {EINTR, EFAULT}}
OpenOutcomes == {[ret |-> 0, errno |-> 0], [ret |-> -1, errno |-> EFAULT]}

\* ------------------------------------------------------- pure functions
\* Variant: only the error return -1 is rejected, a short count passes.
syscall_getrandom_IgnoreShortCount(n, ret) ==
    IF ret = -1 THEN "Err" ELSE "Ok"

\* syscall_getrandom: Err unless the syscall returned exactly dest.len().
syscall_getrandom(n, ret) ==
    IF ret = -1 \/ ret # n THEN "Err" ELSE "Ok"

\* Variant: every failure of the probe counts as "unavailable".
ProbeAvailable_AnyErrorUnavailable(ret, errno) == ret = 0

\* The match of the probe closure: Ok => true, Err(e) => e != ENOSYS.
ProbeAvailable(ret, errno) ==
    IF syscall_getrandom(0, ret) = "Ok" THEN TRUE ELSE errno # ENOSYS

\* Variant: the init closure runs on every call.
NeedsInit_Always(src) == TRUE

\* use_init: the init closure runs only while the cell holds None.
NeedsInit(src) == src.kind = "None"

\* Once::call_once: the closure runs for the caller that finds the Once
\* incomplete; a caller passes only when the Once is complete, and waits
\* while another caller's closure is running.  Variants: a second caller
\* runs the closure while the first is still in it; every caller runs the
\* closure; a caller does not wait for a running closure; a waiting caller
\* is never let through.
OnceMayRun_NotSerialized(state) == state # "COMPLETE"
OnceMayRun_Always(state)        == TRUE
OnceMayPass_NoWait(state)       == state # "INCOMPLETE"
OnceMayPass_LostWakeup(state)   == FALSE
OnceMayRun(state)  == state = "INCOMPLETE"
OnceMayPass(state) == state = "COMPLETE"

\* Variant: the branches are swapped.
AfterAvailable_Swapped(avail) == IF avail THEN "load_init" ELSE "use"

\* if is_getrandom_available() { GetRandom } else { ... Device ... }
AfterAvailable(avail) == IF avail THEN "use" ELSE "load_init"

\* Variants: the blocking read is never done; it is done whatever the flag.
AfterLoadInit_SkipGate(init)   == "open_urandom"
AfterLoadInit_AlwaysGate(init) == "open_random"

\* if !RNG_INIT.load(Relaxed) { read /dev/random } ; open /dev/urandom
AfterLoadInit(init) == IF ~init THEN "open_random" ELSE "open_urandom"

\* Variants: the error of the open is dropped; the store of the flag is
\* left out; the error of the read is dropped.
AfterOpenRandom_IgnoreError(ret) == "read_random"
AfterReadRandom_SkipStore(st)    == IF st = "Err" THEN "return_err" ELSE "open_urandom"
AfterReadRandom_IgnoreError(st)  == "store_init"

\* The ? operator after File::open("/dev/random") and after read_exact.
AfterOpenRandom(ret) == IF ret = -1 THEN "return_err" ELSE "read_random"
AfterReadRandom(st)  == IF st = "Err" THEN "return_err" ELSE "store_init"

\* Variant: a short read is an error, the loop does not read again.
read_exact_ShortReadFails(rem, o) ==
    CASE o.ret = -1 /\ o.errno = EINTR -> [st |-> "more", rem |-> rem]
      [] o.ret = rem                   -> [st |-> "Ok",   rem |-> 0]
      [] OTHER                         -> [st |-> "Err",  rem |-> rem]

\* One turn of the loop of Read::read_exact on a buffer with rem > 0 bytes
\* left, given the outcome o of self.read(buf): Ok(0) breaks and the buffer
\* is not full (UnexpectedEof), Ok(n) advances, Interrupted reads again, any
\* other error is returned.
read_exact(rem, o) ==
    CASE o.ret = -1 /\ o.errno = EINTR -> [st |-> "more", rem |-> rem]
      [] o.ret = -1                    -> [st |-> "Err",  rem |-> rem]
      [] o.ret = 0                     -> [st |-> "Err",  rem |-> rem]
      [] o.ret = rem                   -> [st |-> "Ok",   rem |-> 0]
      [] OTHER                         -> [st |-> "more", rem |-> rem - o.ret]

\* .map_err(|_| Error::Unknown)
MapErr(st) == IF st = "Ok" THEN "Ok" ELSE "Unknown"

\* ------------------------------------------------------------------ Init
Init ==
    /\ pc         = [t \in Threads |-> "idle"]
    /\ calls      = 0
    /\ len        = [t \in Threads |-> 0]
    /\ remaining  = [t \in Threads |-> 0]
    /\ result     = [t \in Threads |-> "none"]
    /\ RNG_SOURCE = [t \in Threads |-> None]
    /\ tmpFile    = [t \in Threads |-> 0]
    /\ RNG_INIT   = FALSE
    /\ CHECKER    = "INCOMPLETE"
    /\ AVAILABLE  = FALSE
    /\ lastCall   = NoCall
    /\ probes     = <<>>
    /\ answers    = {}
    /\ poolRead   = FALSE
    /\ stores     = [t \in Threads |-> 0]

\* --------------------------------------------------------------- actions
\* getrandom(dest) is entered; use_init looks at the thread's cell.
Call(t) ==
    /\ pc[t] = "idle"
    /\ calls < MaxCalls
    /\ \E n \in Lens : len' = [len EXCEPT ![t] = n]
    /\ calls' = calls + 1
    /\ result' = [result EXCEPT ![t] = "none"]
    /\ pc' = [pc EXCEPT ![t] =
                 IF NeedsInit(RNG_SOURCE[t]) THEN "call_once" ELSE "use"]
    /\ UNCHANGED <<remaining, RNG_SOURCE, tmpFile, RNG_INIT, CHECKER,
                   AVAILABLE, lastCall, probes, answers, poolRead, stores>>

\* CHECKER.call_once: this caller is the one to run the closure.
OnceBegin(t) ==
    /\ pc[t] = "call_once"
    /\ OnceMayRun(CHECKER)
    /\ CHECKER' = "RUNNING"
    /\ pc' = [pc EXCEPT ![t] = "probe"]
    /\ UNCHANGED <<calls, len, remaining, result, RNG_SOURCE, tmpFile,
                   RNG_INIT, AVAILABLE, lastCall, probes, answers, poolRead,
                   stores>>

\* CHECKER.call_once: the Once is complete, the caller goes on.
OncePass(t) ==
    /\ pc[t] = "call_once"
    /\ ~OnceMayRun(CHECKER)
    /\ OnceMayPass(CHECKER)
    /\ pc' = [pc EXCEPT ![t] = "load_avail"]
    /\ UNCHANGED <<calls, len, remaining, result, RNG_SOURCE, tmpFile,
                   RNG_INIT, CHECKER, AVAILABLE, lastCall, probes, answers,
                   poolRead, stores>>

\* The closure: syscall_getrandom(&mut []) and AVAILABLE.store(available).
Probe(t) ==
    /\ pc[t] = "probe"
    /\ \E o \in ProbeOutcomes :
          /\ AVAILABLE' = ProbeAvailable(o.ret, o.errno)
          /\ probes' = Append(probes, o)
          /\ lastCall' = KCall("probe", o.ret, o.errno)
    /\ pc' = [pc EXCEPT ![t] = "once_end"]
    /\ UNCHANGED <<calls, len, remaining, result, RNG_SOURCE, tmpFile,
                   RNG_INIT, CHECKER, answers, poolRead, stores>>

\* Variant: the guard is still held when the caller goes on.
OnceEnd_GuardKept(t) ==
    /\ pc[t] = "once_end"
    /\ pc' = [pc EXCEPT ![t] = "load_avail"]
    /\ UNCHANGED <<calls, len, remaining, result, RNG_SOURCE, tmpFile,
                   RNG_INIT, CHECKER, AVAILABLE, lastCall, probes, answers,
                   poolRead, stores>>

\* The closure has returned: the Once becomes complete.
OnceEnd(t) ==
    /\ pc[t] = "once_end"
    /\ CHECKER' = "COMPLETE"
    /\ pc' = [pc EXCEPT ![t] = "load_avail"]
    /\ UNCHANGED <<calls, len, remaining, result, RNG_SOURCE, tmpFile,
                   RNG_INIT, AVAILABLE, lastCall, probes, answers, poolRead,
                   stores>>

\* AVAILABLE.load(Relaxed) is the value is_getrandom_available returns; when
\* it is true the closure returns Ok(GetRandom) and use_init stores it.
LoadAvailable(t) ==
    /\ pc[t] = "load_avail"
    /\ answers' = answers \cup {AVAILABLE}
    /\ pc' = [pc EXCEPT ![t] = AfterAvailable(AVAILABLE)]
    /\ RNG_SOURCE' = [RNG_SOURCE EXCEPT ![t] =
                         IF AfterAvailable(AVAILABLE) = "use"
                         THEN GetRandom ELSE @]
    /\ UNCHANGED <<calls, len, remaining, result, tmpFile, RNG_INIT, CHECKER,
                   AVAILABLE, lastCall, probes, poolRead, stores>>

\* Variant: the load always sees the initial value of the flag.
LoadInit_StaleFalse(t) ==
    /\ pc[t] = "load_init"
    /\ pc' = [pc EXCEPT ![t] = AfterLoadInit(FALSE)]
    /\ UNCHANGED <<calls, len, remaining, result, RNG_SOURCE, tmpFile,
                   RNG_INIT, CHECKER, AVAILABLE, lastCall, probes, answers,
                   poolRead, stores>>

\* RNG_INIT.load(Relaxed)
LoadInit(t) ==
    /\ pc[t] = "load_init"
    /\ pc' = [pc EXCEPT ![t] = AfterLoadInit(RNG_INIT)]
    /\ UNCHANGED <<calls, len, remaining, result, RNG_SOURCE, tmpFile,
                   RNG_INIT, CHECKER, AVAILABLE, lastCall, probes, answers,
                   poolRead, stores>>

\* The call returns r to its caller: dest goes out of scope.
Return(t, r) ==
    /\ pc' = [pc EXCEPT ![t] = "idle"]
    /\ result' = [result EXCEPT ![t] = r]
    /\ len' = [len EXCEPT ![t] = 0]
    /\ remaining' = [remaining EXCEPT ![t] = 0]

\* File::open("/dev/random")?
OpenRandom(t) ==
    /\ pc[t] = "open_random"
    /\ \E o \in OpenOutcomes :
          /\ lastCall' = KCall("open_random", o.ret, o.errno)
          /\ IF AfterOpenRandom(o.ret) = "return_err"
             THEN /\ Return(t, MapErr("Err"))
                  /\ UNCHANGED tmpFile
             ELSE /\ pc' = [pc EXCEPT ![t] = AfterOpenRandom(o.ret)]
                  /\ tmpFile' = [tmpFile EXCEPT ![t] =
                                     IF o.ret = -1 THEN 0 ELSE FreshFd]
                  /\ remaining' = [remaining EXCEPT ![t] = 1]
                  /\ UNCHANGED <<result, len>>
    /\ UNCHANGED <<calls, RNG_SOURCE, RNG_INIT, CHECKER, AVAILABLE, probes,
                   answers, poolRead, stores>>

\* .read_exact(&mut [0u8; 1])? on the temporary File, which is dropped
\* (closed) when the statement ends.
ReadRandom(t) ==
    /\ pc[t] = "read_random"
    /\ \E o \in ReadOutcomes(remaining[t]) :
          LET r == read_exact(remaining[t], o) IN
          /\ lastCall' = KCall("read_random", o.ret, o.errno)
          /\ IF r.st = "more"
             THEN /\ remaining' = [remaining EXCEPT ![t] = r.rem]
                  /\ UNCHANGED <<pc, result, len, tmpFile, poolRead>>
             ELSE /\ tmpFile' = [tmpFile EXCEPT ![t] = 0]
                  /\ poolRead' = (poolRead \/ r.st = "Ok")
                  /\ IF AfterReadRandom(r.st) = "return_err"
                     THEN Return(t, MapErr("Err"))
                     ELSE /\ pc' = [pc EXCEPT ![t] = AfterReadRandom(r.st)]
                          /\ remaining' = [remaining EXCEPT ![t] = 0]
                          /\ UNCHANGED <<result, len>>
    /\ UNCHANGED <<calls, RNG_SOURCE, RNG_INIT, CHECKER, AVAILABLE, probes,
                   answers, stores>>

\* RNG_INIT.store(true, Relaxed)
StoreInit(t) ==
    /\ pc[t] = "store_init"
    /\ RNG_INIT' = TRUE
    /\ stores' = [stores EXCEPT ![t] = @ + 1]
    /\ pc' = [pc EXCEPT ![t] = "open_urandom"]
    /\ UNCHANGED <<calls, len, remaining, result, RNG_SOURCE, tmpFile,
                   CHECKER, AVAILABLE, lastCall, probes, answers, poolRead>>

\* Variant: RNG_SOURCE is one static cell shared by all threads.
OpenUrandom_SharedCell(t) ==
    /\ pc[t] = "open_urandom"
    /\ \E o \in OpenOutcomes :
          /\ lastCall' = KCall("open_urandom", o.ret, o.errno)
          /\ IF o.ret = -1
             THEN /\ Return(t, MapErr("Err"))
                  /\ UNCHANGED RNG_SOURCE
             ELSE /\ pc' = [pc EXCEPT ![t] = "use"]
                  /\ RNG_SOURCE' = [u \in Threads |-> Device(FreshFd)]
                  /\ UNCHANGED <<result, len, remaining>>
    /\ UNCHANGED <<calls, tmpFile, RNG_INIT, CHECKER, AVAILABLE, probes,
                   answers, poolRead, stores>>

\* RngSource::Device(File::open("/dev/urandom")?); on success the closure
\* returns Ok(s) and use_init stores Some(s) in the thread's cell.
OpenUrandom(t) ==
    /\ pc[t] = "open_urandom"
    /\ \E o \in OpenOutcomes :
          /\ lastCall' = KCall("open_urandom", o.ret, o.errno)
          /\ IF o.ret = -1
             THEN /\ Return(t, MapErr("Err"))
                  /\ UNCHANGED RNG_SOURCE
             ELSE /\ pc' = [pc EXCEPT ![t] = "use"]
                  /\ RNG_SOURCE' = [RNG_SOURCE EXCEPT ![t] = Device(FreshFd)]
                  /\ UNCHANGED <<result, len, remaining>>
    /\ UNCHANGED <<calls, tmpFile, RNG_INIT, CHECKER, AVAILABLE, probes,
                   answers, poolRead, stores>>

\* RngSource::GetRandom => syscall_getrandom(dest)
UseGetRandom(t) ==
    /\ pc[t] = "use"
    /\ RNG_SOURCE[t].kind = "GetRandom"
    /\ \E o \in SysOutcomes(len[t]) :
          /\ lastCall' = KCall("getrandom", o.ret, o.errno)
          /\ Return(t, MapErr(syscall_getrandom(len[t], o.ret)))
    /\ UNCHANGED <<calls, RNG_SOURCE, tmpFile, RNG_INIT, CHECKER, AVAILABLE,
                   probes, answers, poolRead, stores>>

\* RngSource::Device(f) => f.read_exact(dest): the loop is entered; with an
\* empty dest it ends at once, with Ok and without a read.
UseDevice(t) ==
    /\ pc[t] = "use"
    /\ RNG_SOURCE[t].kind = "Device"
    /\ IF len[t] = 0
       THEN Return(t, MapErr("Ok"))
       ELSE /\ pc' = [pc EXCEPT ![t] = "read_dev"]
            /\ remaining' = [remaining EXCEPT ![t] = len[t]]
            /\ UNCHANGED <<result, len>>
    /\ UNCHANGED <<calls, RNG_SOURCE, tmpFile, RNG_INIT, CHECKER, AVAILABLE,
                   lastCall, probes, answers, poolRead, stores>>

\* One self.read(buf) of f.read_exact(dest) on /dev/urandom.
ReadDevice(t) ==
    /\ pc[t] = "read_dev"
    /\ \E o \in ReadOutcomes(remaining[t]) :
          LET r == read_exact(remaining[t], o) IN
          /\ lastCall' = KCall("read_urandom", o.ret, o.errno)
          /\ IF r.st = "more"
             THEN /\ remaining' = [remaining EXCEPT ![t] = r.rem]
                  /\ UNCHANGED <<pc, result, len>>
             ELSE Return(t, MapErr(r.st))
    /\ UNCHANGED <<calls, RNG_SOURCE, tmpFile, RNG_INIT, CHECKER, AVAILABLE,
                   probes, answers, poolRead, stores>>

Next ==
    \E t \in Threads :
        \/ Call(t)
        \/ OnceBegin(t)
        \/ OncePass(t)
        \/ Probe(t)
        \/ OnceEnd(t)
        \/ LoadAvailable(t)
        \/ LoadInit(t)
        \/ OpenRandom(t)
        \/ ReadRandom(t)
        \/ StoreInit(t)
        \/ OpenUrandom(t)
        \/ UseGetRandom(t)
        \/ UseDevice(t)
        \/ ReadDevice(t)

Spec == Init /\ [][Next]_vars

\* A step of thread t inside getrandom that is not a read the kernel
\* interrupted: read_exact issues an interrupted read again, so the kernel
\* call has returned only when a read gives bytes, end of file or an error.
Progress(t) ==
    \/ OnceBegin(t)
    \/ OncePass(t)
    \/ Probe(t)
    \/ OnceEnd(t)
    \/ LoadAvailable(t)
    \/ LoadInit(t)
    \/ OpenRandom(t)
    \/ ReadRandom(t) /\ lastCall'.errno # EINTR
    \/ StoreInit(t)
    \/ OpenUrandom(t)
    \/ UseGetRandom(t)
    \/ UseDevice(t)
    \/ ReadDevice(t) /\ lastCall'.errno # EINTR

\* Fair scheduling: a thread that can go on inside a call eventually does,
\* and every kernel call eventually returns.  Issuing a call is up to the
\* caller and is not forced.
FairSpec == Spec /\ \A t \in Threads : WF_vars(Progress(t))

\* ---------------------------------------------------- positions of a thread
\* Inside the init closure of getrandom (source resolution).
ResolutionPcs ==
    {"call_once", "probe", "once_end", "load_avail", "load_init",
     "open_random", "read_random", "store_init", "open_urandom"}
\* Inside the pool-readiness gate: about to open or read /dev/random.
GatePcs == {"open_random", "read_random"}
\* On the device path: the else branch of the closure, and reads of the device.
DevicePcs ==
    {"load_init", "open_random", "read_random", "store_init", "open_urandom",
     "read_dev"}
\* Thread t makes a read of /dev/urandom in this step and the read is not
\* interrupted (an interrupted read changes nothing but lastCall).
ReadDeviceStep(t) ==
    /\ pc[t] = "read_dev"
    /\ pc'[t] # pc[t] \/ remaining'[t] # remaining[t]

\* ------------------------------------------------------------------ claims
\* C1: whenever a thread is about to open /dev/urandom, holds it open or is
\* reading from it, a one-byte read of /dev/random has already completed
\* successfully in the process.
C1_UrandomOnlyAfterPoolRead ==
    \A t \in Threads :
        (pc[t] \in {"open_urandom", "read_dev"} \/ RNG_SOURCE[t].kind = "Device")
            => poolRead
\* Two threads hold /dev/urandom and one of them never did the blocking read.
C1_Witness ==
    \E t, u \in Threads :
        /\ t # u
        /\ RNG_SOURCE[t].kind = "Device" /\ RNG_SOURCE[u].kind = "Device"
        /\ stores[u] = 0

\* C2: the zero-length probe syscall is executed at most once, exactly once
\* when a query has returned, and all queries return the same boolean.
C2_ProbeOnceStableAnswer ==
    /\ Len(probes) <= 1
    /\ Cardinality(answers) <= 1
    /\ answers # {} => Len(probes) = 1
C2_Witness ==
    /\ Len(probes) = 1
    /\ \E t, u \in Threads :
          /\ t # u
          /\ pc[t] \notin {"idle", "call_once", "probe", "once_end", "load_avail"}
          /\ pc[u] \notin {"idle", "call_once", "probe", "once_end", "load_avail"}

\* C3: a caller gets past call_once only when the probe closure has finished,
\* and every value is_getrandom_available returns is the value the single
\* probe computed; in particular false is never returned for a probe whose
\* outcome is "available".
C3_QueryWaitsForProbe ==
    /\ \A t \in Threads : pc[t] = "load_avail" => CHECKER = "COMPLETE"
    /\ \A a \in answers :
          /\ Len(probes) >= 1
          /\ a = (probes[1].ret = 0 \/ probes[1].errno # ENOSYS)
\* A thread waits at call_once while another thread's probe has stored true.
C3_Witness ==
    \E t, u \in Threads :
        /\ pc[t] = "call_once" /\ pc[u] = "once_end"
        /\ CHECKER = "RUNNING" /\ AVAILABLE

\* C4: success of the probe gives true, failure with ENOSYS gives false,
\* failure with any other error code gives true.
C4_ProbeMapping ==
    CHECKER = "COMPLETE" =>
        /\ Len(probes) = 1
        /\ probes[1].ret = 0 => AVAILABLE
        /\ (probes[1].ret = -1 /\ probes[1].errno = ENOSYS) => ~AVAILABLE
        /\ (probes[1].ret = -1 /\ probes[1].errno # ENOSYS) => AVAILABLE
C4_Witness ==
    /\ CHECKER = "COMPLETE"
    /\ probes[1].ret = -1 /\ probes[1].errno = EFAULT
    /\ AVAILABLE

\* C5: once RNG_SOURCE of a thread is Some, no step of the thread changes it
\* or takes the thread into the resolution closure again.
C5_NoSecondResolution ==
    [][\A t \in Threads :
          RNG_SOURCE[t].kind # "None" =>
              /\ RNG_SOURCE'[t] = RNG_SOURCE[t]
              /\ pc'[t] \notin ResolutionPcs]_vars
\* The second call of a thread that resolved to the device in its first call.
C5_Witness ==
    \E t \in Threads :
        /\ calls = 2 /\ pc[t] = "use"
        /\ RNG_SOURCE[t].kind = "Device"
        /\ lastCall.op = "read_urandom"
        /\ \A u \in Threads \ {t} : pc[u] = "idle" /\ result[u] = "none"

\* C6: a thread resolves to GetRandom only when the detector's result is
\* true, and is on the device path (gate, open, Device source, device read)
\* only when the result is false.
C6_SourceFollowsDetector ==
    \A t \in Threads :
        /\ RNG_SOURCE[t].kind = "GetRandom" => (CHECKER = "COMPLETE" /\ AVAILABLE)
        /\ (RNG_SOURCE[t].kind = "Device" \/ pc[t] \in DevicePcs)
              => (CHECKER = "COMPLETE" /\ ~AVAILABLE)
        /\ AVAILABLE => ~poolRead
C6_Witness ==
    /\ CHECKER = "COMPLETE" /\ ~AVAILABLE
    /\ \E t, u \in Threads :
          t # u /\ RNG_SOURCE[t].kind = "Device" /\ RNG_SOURCE[u].kind = "Device"

\* C7: a call on a GetRandom thread returns Ok exactly when the fill syscall
\* returned dest.len().
C7_SyscallExactLength ==
    [][\A t \in Threads :
          (pc[t] = "use" /\ RNG_SOURCE[t].kind = "GetRandom" /\ pc'[t] = "idle")
              => /\ lastCall'.op = "getrandom"
                 /\ result'[t] = "Ok" <=> lastCall'.ret = len[t]
                 /\ result'[t] = "Unknown" <=> lastCall'.ret # len[t]]_vars
\* The syscall returned 1 for a longer buffer and the call failed.
C7_Witness ==
    /\ lastCall.op = "getrandom" /\ lastCall.ret = 1
    /\ \E t \in Threads :
          RNG_SOURCE[t].kind = "GetRandom" /\ result[t] = "Unknown"

\* C8 as stated: a read of the device that returns fewer bytes than asked for
\* ends the call with failure, with no further read.
C8_ShortReadFails ==
    [][\A t \in Threads :
          (ReadDeviceStep(t) /\ lastCall'.ret >= 0 /\ lastCall'.ret < remaining[t])
              => (pc'[t] = "idle" /\ result'[t] = "Unknown")]_vars
\* C8 amended: a read that returns 0 bytes, or fails with an error other than
\* EINTR, ends the call with failure; a read that returns some but not all of
\* the missing bytes is followed by a further read for the rest; a read that
\* returns all missing bytes ends the call with success.
C8_ReadExactLoop ==
    [][\A t \in Threads :
          ReadDeviceStep(t) =>
              /\ lastCall'.op = "read_urandom"
              /\ lastCall'.ret <= 0
                    => (pc'[t] = "idle" /\ result'[t] = "Unknown")
              /\ (lastCall'.ret > 0 /\ lastCall'.ret < remaining[t])
                    => /\ pc'[t] = "read_dev"
                       /\ remaining'[t] = remaining[t] - lastCall'.ret
              /\ lastCall'.ret = remaining[t]
                    => (pc'[t] = "idle" /\ result'[t] = "Ok")]_vars
\* A read returned part of the buffer and the thread is to read the rest.
C8_Witness ==
    \E t \in Threads :
        /\ pc[t] = "read_dev"
        /\ lastCall.op = "read_urandom" /\ lastCall.ret > 0
        /\ remaining[t] < len[t]

\* C9 as stated: RNG_INIT.store(true) is executed at most once in the process.
C9_StoreOnceInProcess ==
    /\ \A t \in Threads : stores[t] <= 1
    /\ Cardinality({t \in Threads : stores[t] > 0}) <= 1
\* C9 amended: each thread executes RNG_INIT.store(true) at most once.
C9_StoreOncePerThread ==
    \A t \in Threads : stores[t] <= 1
\* Two threads have each stored true.
C9_Witness ==
    \E t, u \in Threads : t # u /\ stores[t] = 1 /\ stores[u] = 1

\* C10 as stated: no open or read of /dev/random happens in a state where
\* RNG_INIT is already true.
C10_NoBlockingReadOnceTrue ==
    [][RNG_INIT =>
          \A t \in Threads : ~(pc[t] \in GatePcs /\ pc'[t] # pc[t])]_vars
\* C10 amended: once RNG_INIT is true no thread starts the blocking check;
\* only a thread that loaded the flag as false before is still in it.
C10_NoGateEntryOnceTrue ==
    [][RNG_INIT =>
          \A t \in Threads : pc'[t] \in GatePcs => pc[t] \in GatePcs]_vars
\* A thread has loaded the flag as true and goes straight to /dev/urandom.
C10_Witness ==
    \E t \in Threads :
        RNG_INIT /\ pc[t] = "open_urandom" /\ stores[t] = 0

\* C11: under fair scheduling every getrandom call a thread has entered
\* eventually returns, and a thread that waits on the run-once guard does so
\* only while another thread is inside the probe closure.
C11_EveryCallReturns ==
    /\ \A t \in Threads : (pc[t] # "idle") ~> (pc[t] = "idle")
    /\ [](\A t \in Threads :
             (pc[t] = "call_once" /\ CHECKER = "RUNNING")
                 => \E u \in Threads \ {t} : pc[u] \in {"probe", "once_end"})
\* C11, the same by a measure, which a finite run decides at any bound: the
\* steps a thread has left in its call, at most; every Progress step lowers
\* it, and a thread inside a call can take one, or waits at call_once for a
\* thread inside the probe closure that can.
Rank(t) ==
    CASE pc[t] = "idle"         -> 0
      [] pc[t] = "read_dev"     -> remaining[t]
      [] pc[t] = "use"          -> MaxLen + 1
      [] pc[t] = "open_urandom" -> MaxLen + 2
      [] pc[t] = "store_init"   -> MaxLen + 3
      [] pc[t] = "read_random"  -> MaxLen + 3 + remaining[t]
      [] pc[t] = "open_random"  -> MaxLen + 5
      [] pc[t] = "load_init"    -> MaxLen + 6
      [] pc[t] = "load_avail"   -> MaxLen + 7
      [] pc[t] = "once_end"     -> MaxLen + 8
      [] pc[t] = "probe"        -> MaxLen + 9
      [] pc[t] = "call_once"    -> MaxLen + 10
C11_NoThreadStuck ==
    \A t \in Threads :
        pc[t] # "idle" =>
            \/ ENABLED Progress(t)
            \/ /\ pc[t] = "call_once" /\ CHECKER = "RUNNING"
               /\ \E u \in Threads \ {t} :
                     pc[u] \in {"probe", "once_end"} /\ ENABLED Progress(u)
C11_RankDecreases ==
    [][\A t \in Threads : Progress(t) => Rank(t)' < Rank(t)]_vars
\* Two threads called concurrently and both calls have returned.
C11_Witness ==
    \E t, u \in Threads :
        /\ t # u
        /\ pc[t] = "idle" /\ result[t] # "none"
        /\ pc[u] = "idle" /\ result[u] # "none"

\* C12: the cell RNG_SOURCE[t] changes only in a step of thread t itself,
\* taken inside its resolution closure, and no two threads (nor a thread and
\* another thread's temporary File) hold the same open descriptor.
C12_OwnSourceOnly ==
    [][/\ \A t \in Threads :
             RNG_SOURCE'[t] # RNG_SOURCE[t]
                 => /\ pc[t] \in ResolutionPcs /\ pc'[t] # pc[t]
                    /\ \A u \in Threads \ {t} :
                          /\ pc'[u] = pc[u]
                          /\ RNG_SOURCE'[u] = RNG_SOURCE[u]
                          /\ tmpFile'[u] = tmpFile[u]
       /\ \A t, u \in Threads :
             (t # u /\ RNG_SOURCE'[t].kind = "Device")
                 => /\ RNG_SOURCE'[u].kind = "Device"
                          => RNG_SOURCE'[u].fd # RNG_SOURCE'[t].fd
                    /\ tmpFile'[u] # RNG_SOURCE'[t].fd]_vars
\* One thread holds /dev/urandom while another is reading /dev/random.
C12_Witness ==
    \E t, u \in Threads :
        /\ t # u
        /\ RNG_SOURCE[t].kind = "Device"
        /\ pc[u] = "read_random" /\ tmpFile[u] # 0

\* Every call issued so far was issued by thread t, and t has issued more
\* than one: a thread on the GetRandom path resolves in its first call, so
\* its current call found the source resolved.
OnlyCallerAgain(t) ==
    /\ calls >= 2
    /\ \A u \in Threads \ {t} : pc[u] = "idle" /\ result[u] = "none"

\* C13: a call with an empty buffer on a thread whose source is already
\* resolved returns Ok, for both kinds of source and for every outcome the
\* kernel gives.
C13_EmptyBufferSucceeds ==
    [][\A t \in Threads :
          (/\ pc[t] = "use" /\ len[t] = 0
           /\ RNG_SOURCE[t].kind = "Device" \/ OnlyCallerAgain(t)
           /\ pc'[t] = "idle")
              => result'[t] = "Ok"]_vars

\* C15: the dispatch of a call with an empty buffer makes no kernel call:
\* no fill syscall and no read of the device.
C15_EmptyBufferNoKernelCall ==
    [][\A t \in Threads :
          (pc[t] \in {"use", "read_dev"} /\ len[t] = 0 /\ pc'[t] # pc[t])
              => lastCall' = lastCall]_vars

\* C14: a call returns Ok or Error::Unknown and nothing else, and it returns
\* Unknown as soon as the open of /dev/random, the read_exact of its one
\* byte, the open of /dev/urandom, the fill syscall or the read_exact of the
\* device fails.
C14_FailurePropagates ==
    [][\A t \in Threads :
          /\ (pc[t] # "idle" /\ pc'[t] = "idle")
                => result'[t] \in {"Ok", "Unknown"}
          /\ (pc[t] \in {"open_random", "open_urandom"} /\ pc'[t] # pc[t]
                 /\ lastCall'.ret = -1)
                => (pc'[t] = "idle" /\ result'[t] = "Unknown")
          /\ (pc[t] \in {"read_random", "read_dev"} /\ pc'[t] # pc[t]
                 /\ lastCall'.ret <= 0)
                => (pc'[t] = "idle" /\ result'[t] = "Unknown")
          /\ (pc[t] = "use" /\ RNG_SOURCE[t].kind = "GetRandom"
                 /\ pc'[t] # pc[t] /\ lastCall'.ret = -1)
                => (pc'[t] = "idle" /\ result'[t] = "Unknown")]_vars
\* The open of /dev/random failed and the call returned Unknown.
C14_Witness ==
    \E t \in Threads :
        /\ pc[t] = "idle" /\ result[t] = "Unknown"
        /\ lastCall.op = "open_random" /\ lastCall.ret = -1

\* C16: a resolving call that loads RNG_INIT as false goes, in this order,
\* through one open of /dev/random, its one-byte read_exact, the store of the
\* flag, the open of /dev/urandom and then the read into dest; each stage is
\* entered only from the one before it, a failing stage ends the call with
\* Unknown, and the store is reached only by a read that returned the byte.
C16_GateOrder ==
    [][\A t \in Threads :
          pc'[t] # pc[t] =>
              /\ pc[t] = "load_init" =>
                    pc'[t] = (IF RNG_INIT THEN "open_urandom" ELSE "open_random")
              /\ pc'[t] = "open_random" => (pc[t] = "load_init" /\ ~RNG_INIT)
              /\ pc[t] = "open_random" =>
                    \/ pc'[t] = "read_random" /\ lastCall'.ret = 0
                    \/ pc'[t] = "idle" /\ result'[t] = "Unknown"
              /\ pc[t] = "read_random" =>
                    \/ /\ pc'[t] = "store_init"
                       /\ lastCall'.op = "read_random" /\ lastCall'.ret = 1
                       /\ poolRead'
                    \/ pc'[t] = "idle" /\ result'[t] = "Unknown"
              /\ pc[t] = "store_init" => (pc'[t] = "open_urandom" /\ RNG_INIT')
              /\ pc[t] = "open_urandom" =>
                    \/ pc'[t] = "use" /\ RNG_SOURCE'[t].kind = "Device"
                    \/ pc'[t] = "idle" /\ result'[t] = "Unknown"
              /\ pc'[t] = "read_dev" =>
                    (pc[t] = "use" /\ RNG_SOURCE[t].kind = "Device")]_vars
\* The first call of the process went through the gate, stored the flag,
\* opened /dev/urandom and is now reading into dest.
C16_Witness ==
    \E t \in Threads :
        /\ calls = 1 /\ pc[t] = "read_dev"
        /\ stores[t] = 1 /\ RNG_INIT /\ poolRead

\* C17: while a thread is opening or reading /dev/random the run-once guard
\* is not held (the Once is complete), and every thread that stands at
\* call_once can pass it at once.
C17_NoGuardAcrossBlockingRead ==
    (\E t \in Threads : pc[t] \in GatePcs) =>
        /\ CHECKER = "COMPLETE"
        /\ \A u \in Threads : pc[u] = "call_once" => ENABLED OncePass(u)
\* One thread is in the blocking read while another stands at call_once.
C17_Witness ==
    \E t, u \in Threads :
        pc[t] = "read_random" /\ pc[u] = "call_once"

\* C18: once the Once is complete it stays complete and AVAILABLE does not
\* change; once RNG_INIT is true it stays true.
C18_FlagsMonotone ==
    [][/\ CHECKER = "COMPLETE" =>
             (CHECKER' = "COMPLETE" /\ AVAILABLE' = AVAILABLE)
       /\ RNG_INIT => RNG_INIT']_vars
\* Both flags are set and a second call is under way.
C18_Witness ==
    /\ CHECKER = "COMPLETE" /\ RNG_INIT /\ calls = 2
    /\ \E t \in Threads : pc[t] = "load_init"

\* C19: a call that ends because the open of /dev/random or its one-byte
\* read failed leaves RNG_INIT as it was and does not go on to open
\* /dev/urandom; RNG_INIT becomes true only by the store of a thread whose
\* read succeeded.
C19_FailedGateLeavesFlag ==
    [][/\ \A t \in Threads :
             (/\ pc[t] \in GatePcs /\ pc'[t] # pc[t]
              /\ \/ pc[t] = "open_random" /\ lastCall'.ret = -1
                 \/ pc[t] = "read_random" /\ lastCall'.ret <= 0)
                => /\ RNG_INIT' = RNG_INIT
                   /\ pc'[t] = "idle" /\ result'[t] = "Unknown"
       /\ (~RNG_INIT /\ RNG_INIT') =>
             /\ poolRead
             /\ \E t \in Threads : pc[t] = "store_init" /\ pc'[t] # pc[t]]_vars
\* The one-byte read hit end of file: the call failed and the flag is unset.
C19_Witness ==
    \E t \in Threads :
        /\ pc[t] = "idle" /\ result[t] = "Unknown"
        /\ lastCall.op = "read_random" /\ lastCall.ret = 0
        /\ ~RNG_INIT

====
